---- MODULE Spec2Model ----
(***************************************************************************)
(* The DeepTrader inference server (src/src/deeptrader/                    *)
(* deep_trader_server.py): module start-up, the accept loop of             *)
(* start_server and the handling of one connection by handle_client,       *)
(* including the Ask/Bid price policy, the sanity bound and the error      *)
(* fallback.                                                                *)
(***************************************************************************)
EXTENDS Integers, Sequences, FiniteSets, TLC

\* Number of client connections opened in one run of the model.
MaxConns == 2

\* server_socket.listen(5)
LISTEN_BACKLOG == 5
\* if model_price < 50 or model_price > 200
SANITY_LOW == 50
SANITY_HIGH == 200
\* request.get('limit_price', 150.0)
DEFAULT_LIMIT_PRICE == 150
\* request.get('best_bid', 0), request.get('best_ask', 0)
DEFAULT_FIELD == 0
\* np.array([1.0] * 14), np.array([0.0] * 14)
N_STATS == 14

VARIABLES
    spc,          \* position of the process: boot, bind, listening, handling, stopped, crashed
    stop_reason,  \* why the accept loop ended
    model,        \* the global `model`: undefined, mock or keras
    min_values,   \* the global min_values (14 entries)
    max_values,   \* the global max_values (14 entries)
    backlog,      \* connections waiting in the listen queue, oldest first
    opened,       \* number of connections the clients have opened
    cur,          \* the connection handle_client is working on (0: none)
    hpc,          \* position inside handle_client: idle, recv, process, respond, close
    exc,          \* exception leaving the try body of handle_client
    request,      \* what recv returned, parsed
    trace,        \* the local variables of the prediction path
    response,     \* the response dictionary built by handle_client
    sock,         \* per connection: unopened, pending, open, closed
    outcome,      \* per connection: what the client got
    accepted,     \* connections in the order accept returned them
    responded,    \* connections in the order sendall was called for them
    wire,         \* the bytes of the current connection's message: sent and read
    served,       \* history: the predict requests handled so far, with their answers
    \* --- the dataset reader (DeepTraderDataGenerator) and its store ---
    store,        \* the pickle file: a sequence of batches, each a sequence of rows
    store_state,  \* readable or unreadable
    stats_file,   \* min_max_values.json beside the store: ok or missing
    impl,         \* windowed: src/src/deeptrader; streaming: src/deeptrader
    rpc,          \* new, ready (constructed) or failed (__init__ raised)
    rerror,       \* the exception __init__ raised
    batch_size,   \* self.batch_size
    n_steps,      \* self.n_steps
    no_items,     \* self.no_items
    data_batches, \* self.data_batches
    seq_items,    \* self.seq_items
    train_min,    \* self.train_min
    train_max,    \* self.train_max
    scans,        \* number of times the whole store was read
    fetches,      \* number of __getitem__ calls made
    result,       \* what the last __getitem__ call returned or raised
    \* --- normalisation of one value ---
    npc,          \* start, normalised, done
    nv,           \* the value
    nmin,         \* min_values[i]
    nmax,         \* max_values[i]
    n_file,       \* result of normalise_file for the component
    n_server,     \* result of the server's normalisation for the component
    n_back,       \* result of denormalising n_file
    \* --- create_input on one snapshot of the order book ---
    ipc,          \* start, done
    lob_t,        \* lob["t"]
    tape,         \* lob["tape"], oldest entry first
    delta_t       \* the delta_t that create_input computed

server_vars ==
    <<spc, stop_reason, model, min_values, max_values, backlog, opened, cur,
      hpc, exc, request, trace, response, sock, outcome, accepted, responded,
      wire, served>>

reader_vars ==
    <<store, store_state, stats_file, impl, rpc, rerror, batch_size, n_steps,
      no_items, data_batches, seq_items, train_min, train_max, scans, fetches,
      result>>

norm_vars == <<npc, nv, nmin, nmax, n_file, n_server, n_back>>

input_vars == <<ipc, lob_t, tape, delta_t>>

vars == <<server_vars, reader_vars, norm_vars, input_vars>>

Conns == 1..MaxConns

-----------------------------------------------------------------------------
(* JSON values of a request field: a number, a non-numeric value, or absent. *)

Num(n) == [k |-> "num", v |-> n]
Absent == [k |-> "absent", v |-> 0]
Bad == [k |-> "bad", v |-> 0]

\* request.get(name, default)
Get(f, default) == IF f.k = "absent" THEN Num(default) ELSE f

Max(a, b) == IF a >= b THEN a ELSE b
Min(a, b) == IF a <= b THEN a ELSE b

\* int(round(n / d, 0)) for d > 0: Python rounds halves to the even integer.
RoundHalfEven(n, d) ==
    LET q == n \div d
        r == n % d
    IN  IF 2 * r < d THEN q
        ELSE IF 2 * r > d THEN q + 1
        ELSE IF q % 2 = 0 THEN q ELSE q + 1

-----------------------------------------------------------------------------
(* Module start-up: the import of deep_trader_nn, load_network and          *)
(* normalisation_values.                                                     *)

\* max_values = np.array([1.0] * 14); min_values = np.array([0.0] * 14)
DefaultMax == [i \in 1..N_STATS |-> 1]
DefaultMin == [i \in 1..N_STATS |-> 0]

\* A min_max_values.json as the offline job writes it (target column last).
LoadedMax == [i \in 1..N_STATS |-> IF i = N_STATS THEN 510 ELSE 1000]
LoadedMin == [i \in 1..N_STATS |-> IF i = N_STATS THEN 10 ELSE 0]

\* The ways the code before start_server can end.
\*   loaded:      load_network and normalisation_values both return
\*   load_failed: load_network raises; `model` is never assigned
\*   stats_failed: load_network returns, normalisation_values raises
\*   mock:        both imports fail, the MockModule stands in
StartupOutcomes == {"loaded", "load_failed", "stats_failed", "mock"}

StartupModel(o) ==
    CASE o = "loaded" -> "keras"
      [] o = "stats_failed" -> "keras"
      [] o = "mock" -> "mock"
      [] OTHER -> "undefined"

StartupMax(o) == IF o = "loaded" THEN LoadedMax ELSE DefaultMax
StartupMin(o) == IF o = "loaded" THEN LoadedMin ELSE DefaultMin

-----------------------------------------------------------------------------
(* The prediction path of handle_client.                                    *)

\* What model(normalized_input).numpy().item() yields for one call: a
\* normalised scalar num / den, a NaN, or an exception.
Val(n, d) == [k |-> "val", num |-> n, den |-> d]
BackendOutputs ==
    {Val(n, 1000) : n \in {60, 170, 171, 181, 200, 980}} \cup
    {[k |-> "nan", num |-> 0, den |-> 1], [k |-> "raise", num |-> 0, den |-> 1]}

\* The call of the global `model`: a NameError when it was never assigned,
\* an AttributeError on the mock's ndarray (.numpy()), else the backend's own.
ModelCallRaises(out) == model # "keras" \/ out.k = "raise"

\* denormalized_output = normalized_output * (max[13] - min[13]) + min[13]
\* model_price = int(round(denormalized_output, 0))
Denormalise(out) ==
    RoundHalfEven(out.num * (max_values[N_STATS] - min_values[N_STATS])
                    + min_values[N_STATS] * out.den, out.den)

\* AskPolicy with limit_price in place of limit_price + 1.
AskPolicyOffByOne(model_price, limit_price, best_ask) ==
    IF model_price < limit_price
    THEN IF limit_price < best_ask - 1 THEN best_ask - 1 ELSE limit_price
    ELSE model_price

\* AskPolicy with the test of the tightening step turned around.
AskPolicyTightenInverted(model_price, limit_price, best_ask) ==
    IF model_price < limit_price
    THEN IF limit_price > best_ask - 1 THEN best_ask - 1 ELSE limit_price + 1
    ELSE model_price

\* order_type == "Ask" branch of the price adjustment.
AskPolicy(model_price, limit_price, best_ask) ==
    IF model_price < limit_price
    THEN IF limit_price < best_ask - 1 THEN best_ask - 1 ELSE limit_price + 1
    ELSE model_price

\* BidPolicy with limit_price in place of limit_price - 1.
BidPolicyOffByOne(model_price, limit_price, best_bid) ==
    IF model_price > limit_price
    THEN IF limit_price > best_bid + 1 THEN best_bid + 1 ELSE limit_price
    ELSE model_price

\* else branch of the price adjustment.
BidPolicy(model_price, limit_price, best_bid) ==
    IF model_price > limit_price
    THEN IF limit_price > best_bid + 1 THEN best_bid + 1 ELSE limit_price - 1
    ELSE model_price

PricePolicy(order_type, model_price, limit_price, best_bid, best_ask) ==
    IF order_type = "Ask"
    THEN AskPolicy(model_price, limit_price, best_ask)
    ELSE BidPolicy(model_price, limit_price, best_bid)

\* The rule-based price of the sanity check.
RulePrice(order_type, best_bid, best_ask) ==
    IF order_type = "Ask" THEN best_ask - 1 ELSE best_bid + 1

\* SanityBound clamping to the nearer end of the range.
SanityBoundClamped(order_type, model_price, best_bid, best_ask) ==
    IF model_price < SANITY_LOW THEN SANITY_LOW
    ELSE IF model_price > SANITY_HIGH THEN SANITY_HIGH
    ELSE model_price

\* if model_price < 50 or model_price > 200: ...
SanityBound(order_type, model_price, best_bid, best_ask) ==
    IF model_price < SANITY_LOW \/ model_price > SANITY_HIGH
    THEN RulePrice(order_type, best_bid, best_ask)
    ELSE model_price

\* The price of the except branch.
ErrorFallback(order_type, best_bid, best_ask) ==
    IF order_type = "Ask"
    THEN Max(best_bid + 1, best_ask - 1)
    ELSE Min(best_ask - 1, best_bid + 1)

NoResponse == [status |-> "none", has_price |-> FALSE, price |-> 0]
NoTrace == [path |-> "none", cause |-> "none", candidate |-> 0, adjusted |-> 0, final |-> 0]
NoRequest ==
    [kind |-> "none", order_type |-> "none",
     best_bid |-> Absent, best_ask |-> Absent, limit_price |-> Absent]

\* features - min_values[:13] raises on a non-numeric feature.
FeaturesRaise(req) ==
    \/ Get(req.best_bid, DEFAULT_FIELD).k = "bad"
    \/ Get(req.best_ask, DEFAULT_FIELD).k = "bad"
    \/ Get(req.limit_price, DEFAULT_LIMIT_PRICE).k = "bad"

\* The try block of the predict branch: does it raise? (int(round(nan)) does.)
TryRaises(req, out) ==
    FeaturesRaise(req) \/ ModelCallRaises(out) \/ out.k = "nan"

\* The statement of the try block that raised.
TryCause(req, out) ==
    IF FeaturesRaise(req) THEN "fields"
    ELSE IF ModelCallRaises(out) THEN "model"
    ELSE "nan"

\* The except block indexes the request without defaults: does it raise?
FallbackRaises(req) == req.best_bid.k # "num" \/ req.best_ask.k # "num"

FallbackException(req) ==
    IF req.best_bid.k = "absent" THEN "KeyError"
    ELSE IF req.best_bid.k = "bad" THEN "TypeError"
    ELSE IF req.best_ask.k = "absent" THEN "KeyError"
    ELSE "TypeError"

\* PredictBranch of a handler that tests the sanity bound on the rounded model
\* prediction, before the Ask/Bid adjustment.
PredictBranchSanityFirst(req, out) ==
    LET best_bid == Get(req.best_bid, DEFAULT_FIELD).v
        best_ask == Get(req.best_ask, DEFAULT_FIELD).v
        limit_price == Get(req.limit_price, DEFAULT_LIMIT_PRICE).v
        candidate == Denormalise(out)
        checked == SanityBound(req.order_type, candidate, best_bid, best_ask)
        adjusted == PricePolicy(req.order_type, candidate, limit_price,
                                best_bid, best_ask)
        final == PricePolicy(req.order_type, checked, limit_price,
                             best_bid, best_ask)
        price == ErrorFallback(req.order_type, req.best_bid.v, req.best_ask.v)
    IN  IF ~TryRaises(req, out)
        THEN [response |-> [status |-> "success", has_price |-> TRUE, price |-> final],
              trace |-> [path |-> "try", cause |-> "none", candidate |-> candidate,
                         adjusted |-> adjusted, final |-> final],
              exc |-> "none"]
        ELSE IF ~FallbackRaises(req)
        THEN [response |-> [status |-> "error", has_price |-> TRUE, price |-> price],
              trace |-> [NoTrace EXCEPT !.path = "except", !.cause = TryCause(req, out)],
              exc |-> "none"]
        ELSE [response |-> NoResponse,
              trace |-> [NoTrace EXCEPT !.path = "except_raised",
                                      !.cause = TryCause(req, out)],
              exc |-> FallbackException(req)]

\* The predict branch: the response it builds, the locals it computed and the
\* exception that leaves it.
PredictBranch(req, out) ==
    LET best_bid == Get(req.best_bid, DEFAULT_FIELD).v
        best_ask == Get(req.best_ask, DEFAULT_FIELD).v
        limit_price == Get(req.limit_price, DEFAULT_LIMIT_PRICE).v
        candidate == Denormalise(out)
        adjusted == PricePolicy(req.order_type, candidate, limit_price,
                                best_bid, best_ask)
        final == SanityBound(req.order_type, adjusted, best_bid, best_ask)
        price == ErrorFallback(req.order_type, req.best_bid.v, req.best_ask.v)
    IN  IF ~TryRaises(req, out)
        THEN [response |-> [status |-> "success", has_price |-> TRUE, price |-> final],
              trace |-> [path |-> "try", cause |-> "none", candidate |-> candidate,
                         adjusted |-> adjusted, final |-> final],
              exc |-> "none"]
        ELSE IF ~FallbackRaises(req)
        THEN [response |-> [status |-> "error", has_price |-> TRUE, price |-> price],
              trace |-> [NoTrace EXCEPT !.path = "except", !.cause = TryCause(req, out)],
              exc |-> "none"]
        ELSE [response |-> NoResponse,
              trace |-> [NoTrace EXCEPT !.path = "except_raised",
                                      !.cause = TryCause(req, out)],
              exc |-> FallbackException(req)]

\* Lines 121-229 of handle_client for the text recv returned.
HandleRequest(req, out) ==
    CASE req.kind = "notjson" ->
            [response |-> NoResponse, trace |-> NoTrace, exc |-> "JSONDecodeError"]
      [] req.kind = "nonobject" ->
            [response |-> NoResponse, trace |-> NoTrace, exc |-> "AttributeError"]
      [] req.kind = "unknown" ->
            [response |-> [status |-> "error", has_price |-> FALSE, price |-> 0],
             trace |-> NoTrace, exc |-> "none"]
      [] OTHER -> PredictBranch(req, out)

\* The payloads a client may send.
OrderTypes == {"Ask", "Bid", "other"}
BidValues == {Absent, Bad, Num(10), Num(98), Num(100)}
AskValues == {Absent, Bad, Num(101), Num(105), Num(230)}
LimitValues == {Absent, Bad, Num(45), Num(100), Num(205)}

PredictRequests ==
    [kind : {"predict"}, order_type : OrderTypes,
     best_bid : BidValues, best_ask : AskValues, limit_price : LimitValues]

Payloads ==
    {[NoRequest EXCEPT !.kind = k] : k \in {"empty", "notjson", "nonobject", "unknown"}}
    \cup PredictRequests

-----------------------------------------------------------------------------
(* The byte stream of one connection. A message is the text of the payload  *)
(* (body bytes) followed by tail bytes of whitespace, which json.loads      *)
(* skips; first is the number of bytes that have arrived when recv returns. *)

\* client_socket.recv(4096)
RECV_BUFSIZE == 4096

NoWire == [body |-> 0, tail |-> 0, first |-> 0, got |-> 0]
Delivery(b, t, f) == [body |-> b, tail |-> t, first |-> f, got |-> 0]
WholeDelivery == Delivery(200, 0, 200)
Deliveries ==
    {WholeDelivery,
     Delivery(RECV_BUFSIZE, 0, RECV_BUFSIZE),
     Delivery(200, 0, 120),
     Delivery(RECV_BUFSIZE + 1, 0, RECV_BUFSIZE + 1),
     Delivery(200, 1, 200),
     Delivery(RECV_BUFSIZE, 1, RECV_BUFSIZE + 1)}

\* RecvLen of a handler that keeps reading until the client stops sending.
RecvLenUntilEnd(avail) == avail

\* recv(4096) returns what has arrived, at most 4096 bytes.
RecvLen(avail) == Min(avail, RECV_BUFSIZE)

\* json.loads(data) of the first `got` bytes of a message whose payload p is
\* a JSON object of `body` bytes: the object when all of it was read, and a
\* JSONDecodeError (or a UnicodeDecodeError, handled alike) for a proper prefix
\* of it, which lacks the closing brace.
Decode(p, body, got) ==
    IF got >= body THEN p ELSE [NoRequest EXCEPT !.kind = "notjson"]

\* A small set of payloads for the runs that follow the bytes of a message.
WirePayloads ==
    {[NoRequest EXCEPT !.kind = k] : k \in {"empty", "notjson", "unknown"}}
    \cup [kind : {"predict"}, order_type : {"Ask", "Bid"},
          best_bid : {Absent, Num(98)}, best_ask : {Num(101)},
          limit_price : {Num(100)}]

-----------------------------------------------------------------------------
(* The process: start-up, start_server, handle_client.                      *)

ServerInit ==
    /\ spc = "boot"
    /\ stop_reason = "none"
    /\ model = "undefined"
    /\ min_values = DefaultMin
    /\ max_values = DefaultMax
    /\ backlog = <<>>
    /\ opened = 0
    /\ cur = 0
    /\ hpc = "idle"
    /\ exc = "none"
    /\ request = NoRequest
    /\ trace = NoTrace
    /\ response = NoResponse
    /\ sock = [c \in Conns |-> "unopened"]
    /\ outcome = [c \in Conns |-> "none"]
    /\ accepted = <<>>
    /\ responded = <<>>
    /\ wire = NoWire
    /\ served = {}

\* No dataset reader in this process.
ReaderIdle ==
    /\ store = <<>>
    /\ store_state = "readable"
    /\ stats_file = "ok"
    /\ impl = "windowed"
    /\ rpc = "new"
    /\ rerror = "none"
    /\ batch_size = 0
    /\ n_steps = 0
    /\ no_items = 0
    /\ data_batches = <<>>
    /\ seq_items = 0
    /\ train_min = <<>>
    /\ train_max = <<>>
    /\ scans = 0
    /\ fetches = 0
    /\ result = [kind |-> "none", error |-> "none", index |-> 0, x |-> <<>>, y |-> <<>>]

\* No value being normalised.
NormIdle ==
    /\ npc = "start"
    /\ nv = 0
    /\ nmin = 0
    /\ nmax = 0
    /\ n_file = [k |-> "none", s |-> 1, m |-> 0, e |-> 0]
    /\ n_server = [k |-> "none", s |-> 1, m |-> 0, e |-> 0]
    /\ n_back = [k |-> "none", s |-> 1, m |-> 0, e |-> 0]

\* No snapshot being converted.
InputIdle ==
    /\ ipc = "start"
    /\ lob_t = 0
    /\ tape = <<>>
    /\ delta_t = 0

Init == ServerInit /\ ReaderIdle /\ NormIdle /\ InputIdle

\* The module-level try/except that loads the model and the statistics.
ModuleStartup ==
    /\ spc = "boot"
    /\ \E o \in StartupOutcomes :
         /\ model' = StartupModel(o)
         /\ max_values' = StartupMax(o)
         /\ min_values' = StartupMin(o)
    /\ spc' = "bind"
    /\ UNCHANGED <<reader_vars, norm_vars, input_vars, wire, served, stop_reason, backlog, opened, cur, hpc, exc, request, trace,
                   response, sock, outcome, accepted, responded>>

\* socket(), bind(), listen(5): an OSError here leaves start_server.
StartServer ==
    /\ spc = "bind"
    /\ \E ok \in BOOLEAN :
         IF ok THEN spc' = "listening" /\ stop_reason' = "none"
               ELSE spc' = "stopped" /\ stop_reason' = "bind"
    /\ UNCHANGED <<reader_vars, norm_vars, input_vars, wire, served, model, min_values, max_values, backlog, opened, cur, hpc, exc,
                   request, trace, response, sock, outcome, accepted, responded>>

\* A client connects; the kernel queues the connection until accept.
Connect ==
    /\ spc \in {"listening", "handling"}
    /\ opened < MaxConns
    /\ Len(backlog) < LISTEN_BACKLOG
    /\ opened' = opened + 1
    /\ backlog' = Append(backlog, opened + 1)
    /\ sock' = [sock EXCEPT ![opened + 1] = "pending"]
    /\ UNCHANGED <<reader_vars, norm_vars, input_vars, wire, served, spc, stop_reason, model, min_values, max_values, cur, hpc, exc,
                   request, trace, response, outcome, accepted, responded>>

\* CanAccept of a server that accepts while a connection is being handled.
CanAcceptWhileHandling == spc \in {"listening", "handling"}

\* The loop calls accept only after handle_client has returned.
CanAccept == spc = "listening"

\* client_socket, addr = server_socket.accept(); handle_client(client_socket)
Accept ==
    /\ CanAccept
    /\ backlog # <<>>
    /\ cur' = Head(backlog)
    /\ backlog' = Tail(backlog)
    /\ accepted' = Append(accepted, Head(backlog))
    /\ sock' = [sock EXCEPT ![Head(backlog)] = "open"]
    /\ spc' = "handling"
    /\ hpc' = "recv"
    /\ exc' = "none"
    /\ request' = NoRequest
    /\ trace' = NoTrace
    /\ response' = NoResponse
    /\ UNCHANGED <<reader_vars, norm_vars, input_vars, wire, served, stop_reason, model, min_values, max_values, opened, outcome,
                   responded>>

\* data = client_socket.recv(4096).decode('utf-8'); if not data: return
\* The client's message is payload p delivered as d; an end of stream without
\* data reads as the empty string.
RecvFrom(P, D) ==
    /\ spc = "handling"
    /\ hpc = "recv"
    /\ \E p \in P, d \in D :
         /\ p.kind \in {"predict", "unknown"} \/ d = WholeDelivery
         /\ wire' = IF p.kind = "empty" THEN NoWire
                    ELSE [d EXCEPT !.got = RecvLen(d.first)]
         /\ request' = Decode(p, d.body, RecvLen(d.first))
         /\ IF p.kind = "empty"
            THEN hpc' = "close" /\ outcome' = [outcome EXCEPT ![cur] = "empty"]
            ELSE hpc' = "process" /\ UNCHANGED outcome
    /\ UNCHANGED <<reader_vars, norm_vars, input_vars, served, spc, stop_reason, model, min_values, max_values, backlog, opened,
                   cur, exc, trace, response, sock, accepted, responded>>

\* The message arrives whole, as in the reference's assumption.
Recv == RecvFrom(Payloads, {WholeDelivery})

\* The message arrives in any of the ways of Deliveries.
RecvWire == RecvFrom(WirePayloads, Deliveries)

\* Process of a handler whose except branch rebinds the global statistics to
\* the 0/1 defaults.
ProcessRebindingStats ==
    /\ spc = "handling"
    /\ hpc = "process"
    /\ \E out \in BackendOutputs :
         LET r == HandleRequest(request, out)
         IN  /\ response' = r.response
             /\ trace' = r.trace
             /\ exc' = r.exc
             /\ IF r.trace.path \in {"except", "except_raised"}
                THEN min_values' = DefaultMin /\ max_values' = DefaultMax
                ELSE UNCHANGED <<min_values, max_values>>
             /\ IF r.exc = "none"
                THEN hpc' = "respond" /\ UNCHANGED outcome
                ELSE /\ hpc' = "close"
                     /\ outcome' = [outcome EXCEPT ![cur] =
                          IF r.trace.path = "except_raised"
                          THEN "fallback_error" ELSE "parse_error"]
    /\ UNCHANGED <<reader_vars, norm_vars, input_vars, wire, served, spc, stop_reason, model, backlog, opened,
                   cur, request, sock, accepted, responded>>

\* ProcessStep of a handler that adds the number of earlier connections to
\* the price it returns.
ProcessStepCounting(logging) ==
    /\ spc = "handling"
    /\ hpc = "process"
    /\ \E out \in BackendOutputs :
         LET r == HandleRequest(request, out)
             resp == IF r.response.has_price
                     THEN [r.response EXCEPT !.price = @ + Len(accepted) - 1]
                     ELSE r.response
         IN  /\ response' = resp
             /\ trace' = r.trace
             /\ exc' = r.exc
             /\ served' = IF logging /\ request.kind = "predict"
                          THEN served \cup {[request |-> request, out |-> out,
                                             response |-> resp]}
                          ELSE served
             /\ IF r.exc = "none"
                THEN hpc' = "respond" /\ UNCHANGED outcome
                ELSE /\ hpc' = "close"
                     /\ outcome' = [outcome EXCEPT ![cur] =
                          IF r.trace.path = "except_raised"
                          THEN "fallback_error" ELSE "parse_error"]
    /\ UNCHANGED <<reader_vars, norm_vars, input_vars, wire, spc, stop_reason, model, min_values, max_values, backlog, opened,
                   cur, request, sock, accepted, responded>>

\* json.loads and the branches that build `response`. With logging, a predict
\* request, the backend's output and the response built are added to `served`.
ProcessStep(logging) ==
    /\ spc = "handling"
    /\ hpc = "process"
    /\ \E out \in BackendOutputs :
         LET r == HandleRequest(request, out)
         IN  /\ response' = r.response
             /\ trace' = r.trace
             /\ exc' = r.exc
             /\ served' = IF logging /\ request.kind = "predict"
                          THEN served \cup {[request |-> request, out |-> out,
                                             response |-> r.response]}
                          ELSE served
             /\ IF r.exc = "none"
                THEN hpc' = "respond" /\ UNCHANGED outcome
                ELSE /\ hpc' = "close"
                     /\ outcome' = [outcome EXCEPT ![cur] =
                          IF r.trace.path = "except_raised"
                          THEN "fallback_error" ELSE "parse_error"]
    /\ UNCHANGED <<reader_vars, norm_vars, input_vars, wire, spc, stop_reason, model, min_values, max_values, backlog, opened,
                   cur, request, sock, accepted, responded>>

Process == ProcessStep(FALSE)

ProcessLogged == ProcessStep(TRUE)

\* client_socket.sendall(json.dumps(response).encode('utf-8'))
SendResponse ==
    /\ spc = "handling"
    /\ hpc = "respond"
    /\ outcome' = [outcome EXCEPT ![cur] =
         IF response.has_price THEN "status_price" ELSE "status_only"]
    /\ responded' = Append(responded, cur)
    /\ hpc' = "close"
    /\ UNCHANGED <<reader_vars, norm_vars, input_vars, wire, served, spc, stop_reason, model, min_values, max_values, backlog, opened,
                   cur, exc, request, trace, response, sock, accepted>>

\* Caught of a handler written `except ValueError`.
CaughtValueErrorOnly(e) == e = "JSONDecodeError"

\* except Exception as e: ... catches everything but a BaseException.
Caught(e) == e # "KeyboardInterrupt"

\* Where start_server is after handle_client ended with exception e in flight.
AfterHandler(e) ==
    IF e = "none" \/ Caught(e) THEN "listening"
    ELSE IF e = "KeyboardInterrupt" THEN "stopped"
    ELSE "crashed"

\* Close of a handler that calls client_socket.close() at the end of the try
\* body instead of in a finally clause.
CloseUnlessException ==
    /\ spc = "handling"
    /\ hpc = "close"
    /\ sock' = IF exc = "none" THEN [sock EXCEPT ![cur] = "closed"] ELSE sock
    /\ spc' = AfterHandler(exc)
    /\ stop_reason' = CASE AfterHandler(exc) = "stopped" -> "interrupt"
                        [] AfterHandler(exc) = "crashed" -> "exception"
                        [] OTHER -> "none"
    /\ hpc' = "idle"
    /\ exc' = "none"
    /\ request' = NoRequest
    /\ trace' = NoTrace
    /\ response' = NoResponse
    /\ wire' = NoWire
    /\ UNCHANGED <<reader_vars, norm_vars, input_vars, served, model, min_values, max_values, backlog, opened, cur, outcome,
                   accepted, responded>>

\* finally: client_socket.close(), then back in the loop of start_server.
Close ==
    /\ spc = "handling"
    /\ hpc = "close"
    /\ sock' = [sock EXCEPT ![cur] = "closed"]
    /\ spc' = AfterHandler(exc)
    /\ stop_reason' = CASE AfterHandler(exc) = "stopped" -> "interrupt"
                        [] AfterHandler(exc) = "crashed" -> "exception"
                        [] OTHER -> "none"
    /\ hpc' = "idle"
    /\ exc' = "none"
    /\ request' = NoRequest
    /\ trace' = NoTrace
    /\ response' = NoResponse
    /\ wire' = NoWire
    /\ UNCHANGED <<reader_vars, norm_vars, input_vars, served, model, min_values, max_values, backlog, opened, cur, outcome,
                   accepted, responded>>

\* Ctrl-C: in accept it ends the loop; inside handle_client it passes the
\* except clause, runs the finally and then ends the loop.
KeyboardInterrupt ==
    /\ \/ /\ spc = "listening"
          /\ spc' = "stopped"
          /\ stop_reason' = "interrupt"
          /\ UNCHANGED <<hpc, exc, outcome>>
       \/ /\ spc = "handling"
          /\ hpc \in {"recv", "process", "respond"}
          /\ hpc' = "close"
          /\ exc' = "KeyboardInterrupt"
          /\ outcome' = [outcome EXCEPT ![cur] = "interrupted"]
          /\ UNCHANGED <<spc, stop_reason>>
    /\ UNCHANGED <<reader_vars, norm_vars, input_vars, wire, served, model, min_values, max_values, backlog, opened, cur, request,
                   trace, response, sock, accepted, responded>>

Next ==
    \/ ModuleStartup
    \/ StartServer
    \/ Connect
    \/ Accept
    \/ Recv
    \/ Process
    \/ SendResponse
    \/ Close
    \/ KeyboardInterrupt

Spec == Init /\ [][Next]_vars

\* The server fed with messages that arrive in parts or exceed the buffer.
\* Its blocking calls return: recv gets the client's data or its end of
\* stream, the model call and sendall return, and the finally clause runs.
NextWire ==
    \/ ModuleStartup
    \/ StartServer
    \/ Connect
    \/ Accept
    \/ RecvWire
    \/ Process
    \/ SendResponse
    \/ Close
    \/ KeyboardInterrupt

SpecWire ==
    /\ Init
    /\ [][NextWire]_vars
    /\ WF_vars(RecvWire)
    /\ WF_vars(Process)
    /\ WF_vars(SendResponse)
    /\ WF_vars(Close)

\* The same server with the history of handled requests kept in `served`.
NextReplay ==
    \/ ModuleStartup
    \/ StartServer
    \/ Connect
    \/ Accept
    \/ RecvWire
    \/ ProcessLogged
    \/ SendResponse
    \/ Close
    \/ KeyboardInterrupt

SpecReplay == Init /\ [][NextReplay]_vars

-----------------------------------------------------------------------------
(* Properties of the server.                                                *)

\* The fields of the request being handled, with the defaults of the try block.
ReqBid == Get(request.best_bid, DEFAULT_FIELD).v
ReqAsk == Get(request.best_ask, DEFAULT_FIELD).v
ReqLimit == Get(request.limit_price, DEFAULT_LIMIT_PRICE).v

\* handle_client has finished its try body without a Ctrl-C.
Handled == hpc = "close" /\ exc # "KeyboardInterrupt"

\* C1: every connection that was closed (other than by a shutdown) was first
\* sent a response carrying both a status and a price, whatever it sent.
C1_EveryConnectionAnswered ==
    \A c \in Conns :
        (sock[c] = "closed" /\ outcome[c] # "interrupted")
            => outcome[c] = "status_price"

\* C2: when handle_client ends, whatever happened in it, start_server is back
\* in its accept loop unless a KeyboardInterrupt arrived; the loop ends only on
\* a bind/listen failure or a KeyboardInterrupt.
C2_AcceptLoopSurvives ==
    [][/\ spc' # "crashed"
       /\ spc' = "stopped" => stop_reason' \in {"bind", "interrupt"}
       /\ (hpc = "close" /\ hpc' = "idle")
            => \/ spc' = "listening"
               \/ exc = "KeyboardInterrupt" /\ spc' = "stopped"]_vars

\* C2 witness: a connection whose fallback computation raised was closed and
\* the next connection is being handled.
C2_Witness ==
    \E c \in Conns :
        /\ outcome[c] = "fallback_error"
        /\ sock[c] = "closed"
        /\ spc = "handling"
        /\ cur # c

\* C3: at most one connection is open (received, processed or responded to) at
\* a time, it is the one handle_client works on, every connection accepted
\* before it is closed, and responses go out in accept order.
C3_StrictlySequential ==
    /\ Cardinality({c \in Conns : sock[c] = "open"}) <= 1
    /\ \A c \in Conns : sock[c] = "open" => (spc = "handling" /\ cur = c)
    /\ \A i \in 1..Len(accepted) :
         i < Len(accepted) => sock[accepted[i]] = "closed"
    /\ \A i, j \in 1..Len(responded) :
         i < j => \E a, b \in 1..Len(accepted) :
                    a < b /\ accepted[a] = responded[i] /\ accepted[b] = responded[j]

\* C3 witness: a second client waits in the backlog while the first, already
\* answered connection is still open.
C3_Witness ==
    /\ hpc = "close"
    /\ Len(responded) >= 1
    /\ backlog # <<>>

\* C4: when the prediction path raised and the request carries best_bid and
\* best_ask, the response is status=error with the price of the sanity rule
\* (best_ask-1 for Ask, best_bid+1 for Bid).
C4_ErrorPriceIsSanityRule ==
    (/\ Handled
     /\ request.kind = "predict"
     /\ request.order_type \in {"Ask", "Bid"}
     /\ trace.path \in {"except", "except_raised"}
     /\ request.best_bid.k = "num"
     /\ request.best_ask.k = "num")
        => /\ outcome[cur] = "status_price"
           /\ response.status = "error"
           /\ response.price =
                RulePrice(request.order_type, request.best_bid.v, request.best_ask.v)

\* C5: a predict request without best_bid is answered with status=error and a
\* fallback price.
C5_MissingBestBidIsError ==
    (/\ Handled
     /\ request.kind = "predict"
     /\ request.best_bid.k = "absent")
        => /\ outcome[cur] = "status_price"
           /\ response.status = "error"
           /\ response.has_price

\* C6: when the backend is unavailable or its call fails, every predict
\* request is still answered, with status=error and a fallback price.
C6_BackendFailureAnswered ==
    (/\ Handled
     /\ request.kind = "predict"
     /\ trace.cause \in {"model", "nan"})
        => /\ outcome[cur] = "status_price"
           /\ response.status = "error"
           /\ response.has_price

\* C7: for an Ask order a candidate >= limit_price is left unchanged by the
\* policy, a candidate < limit_price becomes limit_price+1, or best_ask-1 when
\* limit_price < best_ask-1; limit 100, bid 98, ask 101, candidate 95 give 101.
C7_AskPolicy ==
    (trace.path = "try" /\ request.order_type = "Ask")
        => /\ trace.candidate >= ReqLimit => trace.adjusted = trace.candidate
           /\ (trace.candidate < ReqLimit /\ ~(ReqLimit < ReqAsk - 1))
                => trace.adjusted = ReqLimit + 1
           /\ (trace.candidate < ReqLimit /\ ReqLimit < ReqAsk - 1)
                => trace.adjusted = ReqAsk - 1
           /\ (ReqLimit = 100 /\ ReqBid = 98 /\ ReqAsk = 101 /\ trace.candidate = 95)
                => (trace.adjusted = 101 /\ response.price = 101)

C7_Witness ==
    /\ hpc = "close"
    /\ outcome[cur] = "status_price"
    /\ response.status = "success"
    /\ request.order_type = "Ask"
    /\ ReqLimit = 100 /\ ReqBid = 98 /\ ReqAsk = 101
    /\ trace.candidate = 95
    /\ response.price = 101

\* C8: for a Bid order a candidate <= limit_price is left unchanged by the
\* policy, a candidate > limit_price becomes limit_price-1, or best_bid+1 when
\* limit_price > best_bid+1; limit 100, bid 98, ask 101, candidate 110 give 99.
C8_BidPolicy ==
    (trace.path = "try" /\ request.order_type = "Bid")
        => /\ trace.candidate <= ReqLimit => trace.adjusted = trace.candidate
           /\ (trace.candidate > ReqLimit /\ ~(ReqLimit > ReqBid + 1))
                => trace.adjusted = ReqLimit - 1
           /\ (trace.candidate > ReqLimit /\ ReqLimit > ReqBid + 1)
                => trace.adjusted = ReqBid + 1
           /\ (ReqLimit = 100 /\ ReqBid = 98 /\ ReqAsk = 101 /\ trace.candidate = 110)
                => (trace.adjusted = 99 /\ response.price = 99)

C8_Witness ==
    /\ hpc = "close"
    /\ outcome[cur] = "status_price"
    /\ response.status = "success"
    /\ request.order_type = "Bid"
    /\ ReqLimit = 100 /\ ReqBid = 98 /\ ReqAsk = 101
    /\ trace.candidate = 110
    /\ response.price = 99

\* C9: a policy result below 50 or above 200 is replaced by best_ask-1 (Ask)
\* or best_bid+1 (Bid); a policy result inside [50,200] is returned unchanged.
C9_SanityBound ==
    trace.path = "try"
        => /\ response.status = "success"
           /\ (trace.adjusted < 50 \/ trace.adjusted > 200)
                => /\ request.order_type = "Ask" => response.price = ReqAsk - 1
                   /\ request.order_type = "Bid" => response.price = ReqBid + 1
           /\ (trace.adjusted >= 50 /\ trace.adjusted <= 200)
                => response.price = trace.adjusted

C9_Witness ==
    /\ hpc = "close"
    /\ outcome[cur] = "status_price"
    /\ response.status = "success"
    /\ request.order_type = "Ask"
    /\ ReqAsk = 101
    /\ trace.candidate = 500
    /\ trace.adjusted = 500
    /\ response.price = 100

\* C10: every price of a status=success response lies inside [50,200].
C10_SuccessPriceInRange ==
    response.status = "success"
        => (response.price >= 50 /\ response.price <= 200)

-----------------------------------------------------------------------------
(* The dataset reader: DeepTraderDataGenerator over a pickle store.         *)
(* "windowed" is src/src/deeptrader/data_generator.py, "streaming" is       *)
(* src/deeptrader/data_generator.py.                                        *)

\* Largest number of batches in the store, and of rows in one batch.
MaxBatches == 3
MaxBatchLen == 2
\* Largest batch_size and n_steps a reader is constructed with.
MaxBatchSize == 3
MaxSteps == 3
\* Number of __getitem__ calls made on one reader.
MaxFetches == 2

\* NUMBER_OF_FEATURES = 13
NUMBER_OF_FEATURES == 13
\* NUMBER_OF_STEPS = 1 (the streaming reader has no n_steps parameter)
NUMBER_OF_STEPS == 1

\* The row stored at position p (from 0) of the store: 13 features, then the
\* target. Every row differs from every other in each column.
Row(p) ==
    [i \in 1..(NUMBER_OF_FEATURES + 1) |->
        IF i = NUMBER_OF_FEATURES + 1 THEN 1000 + p ELSE 100 * p + i]

RECURSIVE SumSeq(_)
SumSeq(q) == IF q = <<>> THEN 0 ELSE Head(q) + SumSeq(Tail(q))

\* The store whose batches have the lengths lens, in order.
BuildStore(lens) ==
    IF lens = <<>> THEN <<>>
    ELSE [b \in 1..Len(lens) |->
            [j \in 1..lens[b] |-> Row(SumSeq(SubSeq(lens, 1, b - 1)) + j - 1)]]

BatchLengths ==
    UNION {[1..n -> 1..MaxBatchLen] : n \in 0..MaxBatches}

\* while True: data_batch = pickle.load(f); self.no_items += len(data_batch)
RECURSIVE CountItems(_)
CountItems(batches) ==
    IF batches = <<>> THEN 0
    ELSE Len(Head(batches)) + CountItems(Tail(batches))

\* self.data_batches.append(len(data_batch))
BatchLens(batches) ==
    IF batches = <<>> THEN <<>>
    ELSE [b \in 1..Len(batches) |-> Len(batches[b])]

\* while True: data_batch = pickle.load(f); all_data.extend(data_batch)
RECURSIVE ReadAll(_)
ReadAll(batches) ==
    IF batches = <<>> THEN <<>>
    ELSE Head(batches) \o ReadAll(Tail(batches))

\* np.empty((n_features + 1)): whatever the memory holds.
Uninitialised == {[i \in 1..N_STATS |-> c] : c \in {0, 1, 0 - 7}}

NoResult == [kind |-> "none", error |-> "none", index |-> 0, x |-> <<>>, y |-> <<>>]

\* The store and the files around it, before a reader is constructed.
ReaderStart ==
    /\ \E lens \in BatchLengths : store = BuildStore(lens)
    /\ store_state \in {"readable", "unreadable"}
    /\ stats_file \in {"ok", "missing"}
    /\ impl \in {"windowed", "streaming"}
    /\ rpc = "new"
    /\ rerror = "none"
    /\ batch_size = 0
    /\ n_steps = 0
    /\ no_items = 0
    /\ data_batches = <<>>
    /\ seq_items = 0
    /\ train_min = <<>>
    /\ train_max = <<>>
    /\ scans = 0
    /\ fetches = 0
    /\ result = NoResult

InitReader == ServerInit /\ ReaderStart /\ NormIdle /\ InputIdle

\* InsufficientData of an __init__ that never checks seq_items.
InsufficientDataUnchecked(items, steps) == FALSE

\* self.seq_items <= 0: raise ValueError (the streaming reader has no check).
InsufficientData(items, steps) ==
    impl = "windowed" /\ items - (steps - 1) <= 0

\* The try/except around min_max_values.json: the arrays read, or the
\* np.empty arrays left as they were.
LoadStats ==
    IF stats_file = "ok"
    THEN train_min' = LoadedMin /\ train_max' = LoadedMax
    ELSE /\ train_min' \in Uninitialised
         /\ train_max' \in Uninitialised

\* DeepTraderDataGenerator.__init__(dataset_path, batch_size, n_features, n_steps)
Construct ==
    /\ rpc = "new"
    /\ \E bs \in 1..MaxBatchSize, ns \in 1..MaxSteps :
         /\ impl = "streaming" => ns = NUMBER_OF_STEPS
         /\ batch_size' = bs
         /\ n_steps' = ns
         /\ IF store_state = "unreadable"
            THEN /\ rpc' = "failed"
                 /\ rerror' = "OSError"
                 /\ UNCHANGED <<no_items, data_batches, seq_items, train_min,
                                train_max, scans>>
            ELSE /\ no_items' = CountItems(store)
                 /\ data_batches' = IF impl = "windowed" THEN BatchLens(store) ELSE <<>>
                 /\ scans' = scans + 1
                 /\ seq_items' = IF impl = "windowed"
                                 THEN CountItems(store) - (ns - 1) ELSE 0
                 /\ IF InsufficientData(CountItems(store), ns)
                    THEN /\ rpc' = "failed"
                         /\ rerror' = "ValueError"
                         /\ UNCHANGED <<train_min, train_max>>
                    ELSE /\ rpc' = "ready"
                         /\ rerror' = "none"
                         /\ LoadStats
    /\ UNCHANGED <<server_vars, norm_vars, input_vars, store, store_state, stats_file, impl,
                   fetches, result>>

\* ReaderLen that forgets the sequence length.
ReaderLenIgnoringSteps == no_items \div batch_size

\* DeepTraderDataGenerator.__len__
ReaderLen ==
    IF impl = "windowed" THEN seq_items \div batch_size ELSE no_items \div batch_size

\* list[i] in Python: a negative i counts from the end.
PyValid(q, i) == i >= 0 - Len(q) /\ i < Len(q)
PyAt(q, i) == IF i >= 0 THEN q[i + 1] ELSE q[Len(q) + i + 1]

\* start_idx = index * self.batch_size
StartIdx(index) == index * batch_size

\* EndIdx that runs one window into the next minibatch.
EndIdxOverlapping(index) == Min((index + 1) * batch_size + 1, seq_items)

\* end_idx = min((index + 1) * self.batch_size, self.seq_items)
EndIdx(index) == Min((index + 1) * batch_size, seq_items)

\* TargetIdx of a reader that takes the target of the window's last sample.
TargetIdxOwn(all_data, seq_start) == seq_start + n_steps - 1

\* TargetIdx of a reader without the rule for the store's tail.
TargetIdxNoTail(all_data, seq_start) == seq_start + n_steps

\* The list index the target of the window starting at seq_start is read from.
TargetIdx(all_data, seq_start) ==
    IF seq_start + n_steps < Len(all_data)
    THEN seq_start + n_steps
    ELSE seq_start + n_steps - 1

\* The list indices the window starting at seq_start reads.
WindowReads(all_data, seq_start) ==
    {seq_start + step : step \in 0..(n_steps - 1)} \cup {TargetIdx(all_data, seq_start)}

\* DeepTraderDataGenerator.__getitem__(index) of the windowed reader.
GetItemWindowed(index) ==
    LET start_idx == StartIdx(index)
        end_idx == EndIdx(index)
        size == end_idx - start_idx
        all_data == ReadAll(store)
        bad == \E i \in 0..(size - 1) :
                 \E r \in WindowReads(all_data, start_idx + i) : ~PyValid(all_data, r)
    IN  IF size < 0
        THEN [kind |-> "error", error |-> "ValueError", index |-> index,
              x |-> <<>>, y |-> <<>>]
        ELSE IF bad
        THEN [kind |-> "error", error |-> "IndexError", index |-> index,
              x |-> <<>>, y |-> <<>>]
        ELSE [kind |-> "ok", error |-> "none", index |-> index,
              x |-> IF size = 0 THEN <<>>
                    ELSE [i \in 1..size |->
                            [st \in 1..n_steps |->
                                SubSeq(PyAt(all_data, start_idx + i - 1 + st - 1),
                                       1, NUMBER_OF_FEATURES)]],
              y |-> IF size = 0 THEN <<>>
                    ELSE [i \in 1..size |->
                            <<PyAt(all_data, TargetIdx(all_data, start_idx + i - 1))
                                [NUMBER_OF_FEATURES + 1]>>]]

\* end_idx = min((index + 1) * self.batch_size, self.no_items)
EndIdxStreaming(index) == Min((index + 1) * batch_size, no_items)

\* DeepTraderDataGenerator.__getitem__(index) of the streaming reader: the
\* rows at positions start_idx <= count < end_idx of the store fill x and y
\* from the front; what is not filled keeps the bytes np.empty found (junk).
GetItemStreaming(index, junk) ==
    LET start_idx == StartIdx(index)
        end_idx == EndIdxStreaming(index)
        size == end_idx - start_idx
        all_data == ReadAll(store)
        hits == IF start_idx < 0 THEN 0
                ELSE Max(0, Min(end_idx, Len(all_data)) - start_idx)
    IN  IF size < 0
        THEN [kind |-> "error", error |-> "ValueError", index |-> index,
              x |-> <<>>, y |-> <<>>]
        ELSE [kind |-> "ok", error |-> "none", index |-> index,
              x |-> IF size = 0 THEN <<>>
                    ELSE [i \in 1..size |->
                            [st \in 1..NUMBER_OF_STEPS |->
                                IF i <= hits
                                THEN SubSeq(all_data[start_idx + i], 1, NUMBER_OF_FEATURES)
                                ELSE [c \in 1..NUMBER_OF_FEATURES |-> junk]]],
              y |-> IF size = 0 THEN <<>>
                    ELSE [i \in 1..size |->
                            IF i <= hits
                            THEN <<all_data[start_idx + i][NUMBER_OF_FEATURES + 1]>>
                            ELSE <<junk>>]]

\* generator[index]. np.empty with a negative size raises before the store is
\* opened; the windowed reader then loads every batch, the streaming reader
\* reads batches up to the one holding end_idx.
GetItem ==
    /\ rpc = "ready"
    /\ fetches < MaxFetches
    /\ \E index \in (0 - 1)..(ReaderLen + 1) :
         IF impl = "windowed"
         THEN /\ result' = GetItemWindowed(index)
              /\ scans' = IF EndIdx(index) - StartIdx(index) < 0
                          THEN scans ELSE scans + 1
         ELSE /\ \E junk \in {0, 0 - 7} : result' = GetItemStreaming(index, junk)
              /\ scans' = IF /\ EndIdxStreaming(index) - StartIdx(index) >= 0
                             /\ EndIdxStreaming(index) >= no_items
                          THEN scans + 1 ELSE scans
    /\ fetches' = fetches + 1
    /\ UNCHANGED <<server_vars, norm_vars, input_vars, store, store_state, stats_file, impl, rpc,
                   rerror, batch_size, n_steps, no_items, data_batches, seq_items,
                   train_min, train_max>>

NextReader ==
    \/ Construct
    \/ GetItem

SpecReader == InitReader /\ [][NextReader]_vars

\* Number of rows in the store, counted from the store itself.
TotalSamples == SumSeq(BatchLens(store))

\* C11: with batch_size >= 1, n_steps >= 1 and enough data, the length of a
\* constructed reader is (total_samples - (n_steps - 1)) // batch_size, whatever
\* the lengths of the stored batches.
C11_LengthInMinibatches ==
    (rpc = "ready" /\ TotalSamples - (n_steps - 1) > 0)
        => ReaderLen = (TotalSamples - (n_steps - 1)) \div batch_size

\* C11 witness: a windowed reader over batches of unequal length with
\* n_steps > 1 and a remainder.
C11_Witness ==
    /\ rpc = "ready"
    /\ impl = "windowed"
    /\ n_steps = 2
    /\ batch_size = 2
    /\ Len(store) >= 2
    /\ Len(store[1]) # Len(store[2])
    /\ TotalSamples = 4
    /\ ReaderLen = 1

\* C12: a reader over a readable store with total_samples - (n_steps - 1) <= 0
\* is never constructed: __init__ fails with the insufficient-data error.
C12_InsufficientDataRejected ==
    (rpc # "new" /\ store_state = "readable" /\ TotalSamples - (n_steps - 1) <= 0)
        => (rpc = "failed" /\ rerror = "ValueError")

\* C13: an index outside [0, length) makes __getitem__ fail and return no data.
C13_OutOfRangeIndexRejected ==
    (result.kind # "none" /\ (result.index < 0 \/ result.index >= ReaderLen))
        => result.kind = "error"

\* The position in the store of the first row of window k of the result.
WindowStart(k) == (result.x[k][1][1] - 1) \div 100

\* C14: for an index i in [0, length) the call succeeds and returns exactly
\* batch_size windows, the k-th starting at sample i*batch_size + k - 1, so the
\* starts of successive minibatches are disjoint, increasing and contiguous.
C14_ContiguousMinibatches ==
    (result.kind # "none" /\ result.index >= 0 /\ result.index < ReaderLen)
        => /\ result.kind = "ok"
           /\ Len(result.x) = batch_size
           /\ Len(result.y) = batch_size
           /\ \A k \in 1..Len(result.x) :
                WindowStart(k) = result.index * batch_size + k - 1

\* C14 witness: the second minibatch of a store split into unequal batches.
C14_Witness ==
    /\ result.kind = "ok"
    /\ result.index = 1
    /\ ReaderLen >= 2
    /\ batch_size = 2
    /\ Len(store) >= 2
    /\ Len(store[1]) # Len(store[2])
    /\ WindowStart(1) = 2
    /\ WindowStart(2) = 3

C16_StoreScannedOnce ==
    scans <= 1

\* C19 for the dataset reader: when min_max_values.json cannot be read, the
\* constructed reader holds min = 0 and max = 1 in all 14 entries.
C19_StatsFallbackZeroOne ==
    (rpc = "ready" /\ stats_file = "missing")
        => (train_min = DefaultMin /\ train_max = DefaultMax)

-----------------------------------------------------------------------------
(* Min-max normalisation of one component, in binary floating point.        *)
(* numpy computes in IEEE doubles; the model keeps the format (sign,        *)
(* mantissa, exponent, round to nearest even, inf and nan) and shortens     *)
(* the mantissa to MantissaBits bits. The exponent range is not limited:    *)
(* the values of the model are far from overflow and underflow.             *)

MantissaBits == 5
MaxStat == 12

RECURSIVE Pow2(_)
Pow2(n) == IF n <= 0 THEN 1 ELSE 2 * Pow2(n - 1)

Abs(x) == IF x < 0 THEN 0 - x ELSE x

\* A float is s * m * 2^e with m = 0 or 2^(p-1) <= m < 2^p, or inf, or nan.
Fin(sg, m, e) == [k |-> "fin", s |-> sg, m |-> m, e |-> e]
Zero == Fin(1, 0, 0)
Inf(sg) == [k |-> "inf", s |-> sg, m |-> 0, e |-> 0]
NaN == [k |-> "nan", s |-> 1, m |-> 0, e |-> 0]
NoFloat == [k |-> "none", s |-> 1, m |-> 0, e |-> 0]

ExpRange == (0 - (2 * MantissaBits + 4))..(MantissaBits + 4)
ScaleNum(a, e) == IF e < 0 THEN a * Pow2(0 - e) ELSE a
ScaleDen(d, e) == IF e < 0 THEN d ELSE d * Pow2(e)

\* The float nearest to n / d (d > 0), ties to the even mantissa.
RoundRat(n, d) ==
    IF n = 0 THEN Zero
    ELSE LET a == Abs(n)
             sg == IF n < 0 THEN 0 - 1 ELSE 1
             e == CHOOSE x \in ExpRange :
                     /\ Pow2(MantissaBits - 1) * ScaleDen(d, x) <= ScaleNum(a, x)
                     /\ ScaleNum(a, x) < Pow2(MantissaBits) * ScaleDen(d, x)
             m == RoundHalfEven(ScaleNum(a, e), ScaleDen(d, e))
         IN  IF m = Pow2(MantissaBits)
             THEN Fin(sg, Pow2(MantissaBits - 1), e + 1)
             ELSE Fin(sg, m, e)

\* The exact value of a finite float as the fraction RatNum / RatDen.
RatNum(x) == x.s * x.m * (IF x.e >= 0 THEN Pow2(x.e) ELSE 1)
RatDen(x) == IF x.e < 0 THEN Pow2(0 - x.e) ELSE 1

\* np.array of a number: the nearest float.
FromInt(i) == RoundRat(i, 1)

\* Operands are finite wherever the code applies -, + and *.
FlSub(x, y) == RoundRat(RatNum(x) * RatDen(y) - RatNum(y) * RatDen(x), RatDen(x) * RatDen(y))
FlAdd(x, y) == RoundRat(RatNum(x) * RatDen(y) + RatNum(y) * RatDen(x), RatDen(x) * RatDen(y))
FlMul(x, y) == RoundRat(RatNum(x) * RatNum(y), RatDen(x) * RatDen(y))

\* numpy's true division of finite floats: x / 0 is nan for x = 0 and a
\* signed inf otherwise (a RuntimeWarning, no exception).
FlDiv(x, y) ==
    IF RatNum(y) = 0
    THEN IF RatNum(x) = 0 THEN NaN
         ELSE Inf(IF RatNum(x) < 0 THEN 0 - 1 ELSE 1)
    ELSE LET sg == IF RatNum(y) < 0 THEN 0 - 1 ELSE 1
         IN  RoundRat(sg * RatNum(x) * RatDen(y), Abs(RatNum(y)) * RatDen(x))

\* (data - min) / (max - min)
MinMaxScale(v, lo, hi) ==
    FlDiv(FlSub(FromInt(v), FromInt(lo)), FlSub(FromInt(hi), FromInt(lo)))

\* normalise_file, one entry of column i.
NormaliseFileEntry(v, lo, hi) ==
    IF hi > lo THEN MinMaxScale(v, lo, hi) ELSE Zero

\* handle_client, one entry of normalized_input.
ServerNormaliseEntry(v, lo, hi) == MinMaxScale(v, lo, hi)

\* The denormalisation with max in place of max - min.
DenormaliseEntryByMax(sc, lo, hi) ==
    FlAdd(FlMul(sc, FromInt(hi)), FromInt(lo))

\* handle_client: normalized_output * (max - min) + min
DenormaliseEntry(sc, lo, hi) ==
    FlAdd(FlMul(sc, FlSub(FromInt(hi), FromInt(lo))), FromInt(lo))

\* The statistics are the column minimum and maximum: min <= max.
InitNorm ==
    /\ ServerInit
    /\ ReaderIdle
    /\ npc = "start"
    /\ nv \in 0..MaxStat
    /\ nmax \in 0..MaxStat
    /\ nmin \in 0..nmax
    /\ n_file = NoFloat
    /\ n_server = NoFloat
    /\ n_back = NoFloat
    /\ InputIdle

NormaliseFile ==
    /\ npc = "start"
    /\ n_file' = NormaliseFileEntry(nv, nmin, nmax)
    /\ npc' = "file"
    /\ UNCHANGED <<server_vars, reader_vars, input_vars, nv, nmin, nmax, n_server, n_back>>

ServerNormalise ==
    /\ npc = "file"
    /\ n_server' = ServerNormaliseEntry(nv, nmin, nmax)
    /\ npc' = "server"
    /\ UNCHANGED <<server_vars, reader_vars, input_vars, nv, nmin, nmax, n_file, n_back>>

ServerDenormalise ==
    /\ npc = "server"
    /\ n_back' = DenormaliseEntry(n_file, nmin, nmax)
    /\ npc' = "done"
    /\ UNCHANGED <<server_vars, reader_vars, input_vars, nv, nmin, nmax, n_file, n_server>>

NextNorm == NormaliseFile \/ ServerNormalise \/ ServerDenormalise

SpecNorm == InitNorm /\ [][NextNorm]_vars

InRange == nmax > nmin /\ nmin <= nv /\ nv <= nmax

\* C17: for a component with max = min, both normalisations return 0: the
\* offline normaliser and the server's per-request normalisation.
C17_ZeroWhenMaxEqualsMin ==
    (npc \in {"server", "done"} /\ nmax = nmin)
        => (n_file = Zero /\ n_server = Zero)

C20_StatsAssignedOnlyAtStartup ==
    [][spc # "boot" => UNCHANGED <<model, min_values, max_values>>]_vars

C20_Witness ==
    /\ spc = "handling"
    /\ hpc = "close"
    /\ trace.path = "except"
    /\ min_values = LoadedMin
    /\ max_values = LoadedMax
    /\ model = "keras"

-----------------------------------------------------------------------------
(* Further properties of the server.                                        *)

InSanityRange(p) == p >= SANITY_LOW /\ p <= SANITY_HIGH

\* C24: the sanity bound is tested on the price after the Ask/Bid adjustment:
\* a rounded prediction outside [50,200] that the adjustment moves inside is
\* returned as adjusted with status=success, and one inside [50,200] that the
\* adjustment moves outside is replaced by the rule-based price.
C24_SanityTestedAfterPolicy ==
    (trace.path = "try" /\ request.order_type \in {"Ask", "Bid"})
        => /\ (~InSanityRange(trace.candidate) /\ InSanityRange(trace.adjusted))
                => (response.status = "success" /\ response.price = trace.adjusted)
           /\ (InSanityRange(trace.candidate) /\ ~InSanityRange(trace.adjusted))
                => response.price = RulePrice(request.order_type, ReqBid, ReqAsk)

\* C24 witness: an Ask prediction of 40 under limit 100 was adjusted to 101 and
\* answered as such.
C24_Witness ==
    /\ hpc = "close"
    /\ outcome[cur] = "status_price"
    /\ request.order_type = "Ask"
    /\ trace.candidate = 40
    /\ trace.adjusted = 101
    /\ response.status = "success"
    /\ response.price = 101

\* C26 as claimed: the price of every status=success response respects the
\* limit (Ask: price >= limit_price, Bid: price <= limit_price), also when the
\* sanity bound substituted the rule-based price.
C26_SuccessPriceRespectsLimit ==
    response.status = "success"
        => /\ request.order_type = "Ask" => response.price >= ReqLimit
           /\ request.order_type = "Bid" => response.price <= ReqLimit

\* C26 amended: a status=success price that the sanity bound left in place
\* respects the limit; a substituted one is best_ask-1 (Ask) or best_bid+1
\* (Bid), whatever the limit.
C26_UnsubstitutedPriceRespectsLimit ==
    (response.status = "success" /\ request.order_type \in {"Ask", "Bid"})
        => IF InSanityRange(trace.adjusted)
           THEN /\ request.order_type = "Ask" => response.price >= ReqLimit
                /\ request.order_type = "Bid" => response.price <= ReqLimit
           ELSE response.price = RulePrice(request.order_type, ReqBid, ReqAsk)

\* C26 witness: an Ask prediction below the limit was raised above it.
C26_Witness ==
    /\ hpc = "close"
    /\ outcome[cur] = "status_price"
    /\ response.status = "success"
    /\ request.order_type = "Ask"
    /\ trace.candidate < ReqLimit
    /\ InSanityRange(trace.adjusted)
    /\ response.price > ReqLimit

\* C29: when load_network failed at startup, no predict request is answered
\* with status=success: one that carries best_bid and best_ask is answered
\* with status=error, one that lacks either gets no response.
C29_NoSuccessWithoutModel ==
    (Handled /\ model = "undefined" /\ request.kind = "predict")
        => /\ response.status # "success"
           /\ (request.best_bid.k # "absent" /\ request.best_ask.k # "absent")
                => (outcome[cur] = "status_price" /\ response.status = "error")
           /\ (request.best_bid.k = "absent" \/ request.best_ask.k = "absent")
                => outcome[cur] = "fallback_error"

\* The steps between the phases of one connection (idle: LISTENING, recv:
\* RECEIVING, process: PROCESSING, respond: RESPONDING, close: the finally
\* clause that ends in CLOSED).
PhaseOrder ==
    {<<"idle", "recv">>, <<"recv", "process">>, <<"recv", "close">>,
     <<"process", "respond">>, <<"process", "close">>, <<"respond", "close">>,
     <<"close", "idle">>}

Dropped ==
    /\ request.kind = "notjson"
    /\ outcome[cur] = "parse_error"
    /\ \A i \in 1..Len(responded) : responded[i] # cur

\* C28 as claimed: recv is called once and returns at most 4096 bytes; when
\* the message arrives in parts or is longer than 4096 bytes, so that recv
\* returns only a prefix of it, no response is sent and the connection is
\* closed; the unread bytes are gone when the next connection is read.
C28_PrefixNeverAnswered ==
    /\ hpc \in {"idle", "recv"} => wire = NoWire
    /\ hpc \in {"process", "respond", "close"}
            => wire.got = Min(wire.first, RECV_BUFSIZE)
    /\ (Handled /\ (wire.first < wire.body + wire.tail
                        \/ wire.body + wire.tail > RECV_BUFSIZE))
            => Dropped

\* C28 amended: as C28, for a prefix that ends inside the JSON object; when
\* recv returned the whole object and only trailing whitespace is unread, the
\* object is handled as the request.
C28_CutObjectNeverAnswered ==
    /\ hpc \in {"idle", "recv"} => wire = NoWire
    /\ hpc \in {"process", "respond", "close"}
            => wire.got = Min(wire.first, RECV_BUFSIZE)
    /\ (Handled /\ (wire.first < wire.body \/ wire.body > RECV_BUFSIZE))
            => Dropped
    /\ (Handled /\ wire.got >= wire.body /\ wire.got < wire.body + wire.tail)
            => /\ request.kind \in {"predict", "unknown"}
               /\ outcome[cur] \in {"status_price", "status_only", "fallback_error"}

\* C28 witness: a message one byte longer than the buffer was dropped and the
\* connection is about to be closed.
C28_Witness ==
    /\ Handled
    /\ wire.body = RECV_BUFSIZE + 1
    /\ wire.got = RECV_BUFSIZE
    /\ Dropped

-----------------------------------------------------------------------------
(* Further properties of the dataset reader.                                *)

\* The minibatch asked for lies in [0, length) of a constructed reader.
Fetched == result.kind # "none" /\ result.index >= 0 /\ result.index < ReaderLen

\* The sample the k-th window of minibatch `index` starts at.
SampleOf(index, k) == index * batch_size + k - 1

\* What the window rule of the data model gives for minibatch `index`: the
\* features of n_steps consecutive samples, and the target of the sample after
\* them, or of the last of them at the store's tail.
ExpectedX(index) ==
    [k \in 1..batch_size |->
        [st \in 1..n_steps |->
            SubSeq(Row(SampleOf(index, k) + st - 1), 1, NUMBER_OF_FEATURES)]]
ExpectedY(index) ==
    [k \in 1..batch_size |->
        LET s == SampleOf(index, k)
        IN  <<Row(IF s + n_steps < TotalSamples
                  THEN s + n_steps ELSE s + n_steps - 1)[NUMBER_OF_FEATURES + 1]>>]

\* C23: for a window starting at sample s the windowed reader returns the 13
\* features of samples s .. s+n_steps-1 in order and the target of sample
\* s+n_steps, or of sample s+n_steps-1 when s+n_steps is past the end; with
\* n_steps = 1 the target is that of the following sample.
C23_WindowFeaturesAndTarget ==
    (Fetched /\ impl = "windowed")
        => /\ result.kind = "ok"
           /\ result.x = ExpectedX(result.index)
           /\ result.y = ExpectedY(result.index)
           /\ n_steps = 1
                => \A k \in 1..Len(result.y) :
                     LET s == SampleOf(result.index, k)
                     IN  result.y[k][1] =
                            Row(IF s + 1 < TotalSamples THEN s + 1 ELSE s)
                                [NUMBER_OF_FEATURES + 1]

\* C23 witness: n_steps = 1 over a store of two samples: the first window has
\* the target of the second sample, the second window its own.
C23_Witness ==
    /\ impl = "windowed"
    /\ n_steps = 1
    /\ batch_size = 2
    /\ TotalSamples = 2
    /\ result.kind = "ok"
    /\ result.index = 0
    /\ result.x[1][1][1] = Row(0)[1]
    /\ result.y = <<<<Row(1)[NUMBER_OF_FEATURES + 1]>>, <<Row(1)[NUMBER_OF_FEATURES + 1]>>>>

\* The window starting at sample s takes its target by the tail rule.
TailRule(s) == TargetIdx(ReadAll(store), s) = s + n_steps - 1

\* C27: for an index in [0, length) every position the windowed reader reads
\* lies in [0, total_samples), and the tail rule applies to no window but the
\* one starting at total_samples - n_steps.
C27_ReadsInRange ==
    (Fetched /\ impl = "windowed")
        => /\ result.kind = "ok"
           /\ \A k \in 1..batch_size :
                /\ \A r \in WindowReads(ReadAll(store), SampleOf(result.index, k)) :
                     r >= 0 /\ r < TotalSamples
                /\ TailRule(SampleOf(result.index, k))
                     => SampleOf(result.index, k) = TotalSamples - n_steps

\* C27 witness: the last window of the last minibatch ends at the last sample
\* and takes its target by the tail rule.
C27_Witness ==
    /\ Fetched
    /\ impl = "windowed"
    /\ result.kind = "ok"
    /\ n_steps = 2
    /\ batch_size = 2
    /\ TailRule(SampleOf(result.index, batch_size))
    /\ ~TailRule(SampleOf(result.index, 1))

\* C30: with n_steps = 1 the streaming and the windowed reader agree: over
\* the same store and batch_size both report total_samples // batch_size
\* minibatches and both return the same X and the same Y for every index in
\* [0, length).
C30_ReadersEquivalent ==
    (rpc = "ready" /\ n_steps = 1)
        => /\ ReaderLen = TotalSamples \div batch_size
           /\ Fetched
                => /\ result.kind = "ok"
                   /\ result.x = ExpectedX(result.index)
                   /\ result.y = ExpectedY(result.index)

-----------------------------------------------------------------------------
(* create_input: the delta_t entry of market_conditions. The tape is the    *)
(* exchange's record, oldest entry first; its entries carry a type and a    *)
(* time (the prices do not enter delta_t).                                   *)

\* Largest tape length and largest timestamp.
MaxTape == 3
MaxTime == 3

TapeEntries == [type : {"Trade", "Cancel"}, t : 0..MaxTime]

\* The tapes an exchange can hand over at time `now`: times do not decrease
\* and none lies after the snapshot.
Tapes(now) ==
    UNION {{q \in [1..n -> TapeEntries] :
                /\ \A i \in 1..n : q[i].t <= now
                /\ \A i \in 1..(n - 1) : q[i].t <= q[i + 1].t}
           : n \in 0..MaxTape}

\* reversed(tape)
Reversed(q) == [i \in 1..Len(q) |-> q[Len(q) + 1 - i]]

\* [t for t in tape if t["type"] == "Trade"]
RECURSIVE TradesOf(_)
TradesOf(q) ==
    IF q = <<>> THEN <<>>
    ELSE IF Head(q).type = "Trade" THEN <<Head(q)>> \o TradesOf(Tail(q))
    ELSE TradesOf(Tail(q))

\* DeltaT of a create_input without tape = reversed(tape).
DeltaTOldestFirst(time, tp) ==
    IF Len(tp) > 0
    THEN LET trades == TradesOf(tp)
         IN  IF Len(trades) # 0 /\ time = trades[1].t
             THEN trades[1].t - (IF Len(trades) = 1 THEN 0 ELSE trades[2].t)
             ELSE 0
    ELSE time

\* delta_t as lines 40-59 compute it.
DeltaT(time, tp) ==
    IF Len(tp) > 0
    THEN LET trades == TradesOf(Reversed(tp))
         IN  IF Len(trades) # 0 /\ time = trades[1].t
             THEN trades[1].t - (IF Len(trades) = 1 THEN 0 ELSE trades[2].t)
             ELSE 0
    ELSE time

InitInput ==
    /\ ServerInit
    /\ ReaderIdle
    /\ NormIdle
    /\ ipc = "start"
    /\ lob_t \in 0..MaxTime
    /\ tape \in Tapes(lob_t)
    /\ delta_t = 0

\* create_input(lob, otype)
CreateInput ==
    /\ ipc = "start"
    /\ delta_t' = DeltaT(lob_t, tape)
    /\ ipc' = "done"
    /\ UNCHANGED <<server_vars, reader_vars, norm_vars, lob_t, tape>>

NextInput == CreateInput

SpecInput == InitInput /\ [][NextInput]_vars

\* The positions of the Trade entries of the tape.
TradePositions == {i \in 1..Len(tape) : tape[i].type = "Trade"}
\* The most recent Trade entry and the one before it.
LastTrade == CHOOSE i \in TradePositions : \A j \in TradePositions : j <= i
PrevTrade ==
    CHOOSE i \in TradePositions \ {LastTrade} :
        \A j \in TradePositions \ {LastTrade} : j <= i

\* C25: delta_t is the gap between the two most recent Trade entries when the
\* most recent trade's time is the snapshot timestamp (measured from 0 when
\* there is one trade only), the snapshot timestamp when the tape is empty,
\* and 0 otherwise, also for a non-empty tape without Trade entries.
C25_DeltaT ==
    ipc = "done"
        => /\ tape = <<>> => delta_t = lob_t
           /\ (tape # <<>> /\ TradePositions = {}) => delta_t = 0
           /\ (TradePositions # {} /\ tape[LastTrade].t # lob_t) => delta_t = 0
           /\ (Cardinality(TradePositions) = 1 /\ tape[LastTrade].t = lob_t)
                => delta_t = tape[LastTrade].t
           /\ (Cardinality(TradePositions) >= 2 /\ tape[LastTrade].t = lob_t)
                => delta_t = tape[LastTrade].t - tape[PrevTrade].t

\* C25 witness: two trades, the later one at the snapshot's time, followed by
\* a cancellation.
C25_Witness ==
    /\ ipc = "done"
    /\ Len(tape) = 3
    /\ tape[1].type = "Trade"
    /\ tape[2].type = "Trade"
    /\ tape[3].type = "Cancel"
    /\ tape[2].t = lob_t
    /\ tape[1].t < tape[2].t
    /\ delta_t = tape[2].t - tape[1].t

====
